---------------------------- MODULE Spec2Model ----------------------------
(***************************************************************************)
(* Model of the markdown splitter (src/split.py): the name allocator       *)
(* heading_to_name, the heading extractor parse_markdown, the section      *)
(* splitter create_file_structure and the orchestrator split.              *)
(*                                                                         *)
(* A Python str is a sequence of one-character strings.  A text that is    *)
(* handled line by line (a file's content, a document) is the sequence of  *)
(* its '\n'-separated pieces, which is never empty: '' is << <<>> >>.      *)
(***************************************************************************)
EXTENDS Integers, Sequences, FiniteSets, TLC

VARIABLES
    \* the file system
    original,           \* original/{name}.md: name -> None or the file's lines
    docs,               \* docs/{name}/: name -> [exists, files: file name -> content]
    config,             \* docs/.vitepress/config.mjs: None or the spliced fragment
    \* split
    names,              \* the names split was called with
    ni,                 \* position of the for loop in names (1-based)
    pc,                 \* where split stands
    name,               \* the loop variable
    sections,           \* parse_markdown's result for the current document
    all_structures,     \* the dict name -> structure, in insertion order
    \* create_file_structure
    si,                 \* position of the for loop in sections (1-based)
    used_names,
    current_l1_name,
    sidebar_structure,
    current_l1_items,
    current_l1_link,
    \* history, read by the properties only
    sink_calls,         \* calls of update_config_file in this run
    writes,             \* create_file_structure's f.write calls for the current document
    written,            \* name -> file names written under docs/{name}/ in this run
    docs0,              \* docs as the first run of split found it
    run,                \* 1 for the first run of split, 2 for the rerun
    first,              \* docs and config as the first run left them
    issued,             \* the names heading_to_name returned, in call order
    asked               \* the heading texts it was called with

fs == <<original, docs, config>>

loop == <<names, ni, pc, name, sections, all_structures>>

cfs == <<si, used_names, current_l1_name, sidebar_structure, current_l1_items,
         current_l1_link>>

hist == <<sink_calls, writes, written, docs0, run, first>>

alloc == <<issued, asked>>

vars == <<fs, loop, cfs, hist, alloc>>

(* ------------------------------ bounds -------------------------------- *)

\* number of heading_to_name calls made on one used_names set
MaxAlloc == 4

\* lines of a small document
MaxLines == 4

\* heading lines of a document that is padded up to the threshold
MaxSkel == 3

\* names in the list split is called with
MaxNames == 2

\* runs of split on the same input
MaxRuns == 2

(* ---------------------------- characters ------------------------------ *)

Digits == {"0", "1", "2", "3", "4", "5", "6", "7", "8", "9"}

LowerLetters == {"a", "b", "c", "d", "e", "f", "i", "m", "n", "t", "u", "x"}

UpperLetters == {"A", "B", "C", "I", "T", "X"}

\* \w of Python's re on str
WordChars == Digits \cup LowerLetters \cup UpperLetters \cup {"_"}

\* \s of Python's re, and what str.strip() removes
SpaceChars == {" ", "\t"}

\* str.lower() on one character
LowerChar(c) ==
    CASE c = "A" -> "a" [] c = "B" -> "b" [] c = "C" -> "c" [] c = "I" -> "i"
      [] c = "T" -> "t" [] c = "X" -> "x" [] OTHER -> c

\* str.upper() on one character
UpperChar(c) ==
    CASE c = "a" -> "A" [] c = "b" -> "B" [] c = "c" -> "C" [] c = "d" -> "D"
      [] c = "e" -> "E" [] c = "f" -> "F" [] c = "i" -> "I" [] c = "m" -> "M"
      [] c = "n" -> "N" [] c = "t" -> "T" [] c = "u" -> "U" [] c = "x" -> "X"
      [] OTHER -> c

StrLower(s) == [i \in 1..Len(s) |-> LowerChar(s[i])]

StrUpper(s) == [i \in 1..Len(s) |-> UpperChar(s[i])]

\* s[n:] of Python (n >= 0)
Drop(s, n) == IF n >= Len(s) THEN <<>> ELSE SubSeq(s, n + 1, Len(s))

\* s[:n] of Python (n >= 0)
Take(s, n) == IF n >= Len(s) THEN s ELSE SubSeq(s, 1, n)

\* s.startswith(p)
StartsWith(s, p) == Len(p) <= Len(s) /\ SubSeq(s, 1, Len(p)) = p

\* p in s, for strings
Contains(s, p) ==
    \E k \in 0..(Len(s) - Len(p)) : SubSeq(s, k + 1, k + Len(p)) = p

\* the characters of s that are in keep, in order
RECURSIVE Filter(_, _)
Filter(s, keep) ==
    IF s = <<>> THEN <<>>
    ELSE IF Head(s) \in keep THEN <<Head(s)>> \o Filter(Tail(s), keep)
    ELSE Filter(Tail(s), keep)

\* s.lstrip(chars), s.rstrip(chars), s.strip(chars)
RECURSIVE LStrip(_, _)
LStrip(s, chars) ==
    IF s # <<>> /\ Head(s) \in chars THEN LStrip(Tail(s), chars) ELSE s

RECURSIVE RStrip(_, _)
RStrip(s, chars) ==
    IF s # <<>> /\ s[Len(s)] \in chars
    THEN RStrip(SubSeq(s, 1, Len(s) - 1), chars) ELSE s

Strip(s, chars) == RStrip(LStrip(s, chars), chars)

\* str(n) for n >= 0
RECURSIVE IntToStr(_)
IntToStr(n) ==
    LET d == CHOOSE c \in Digits :
                 c = (CASE n % 10 = 0 -> "0" [] n % 10 = 1 -> "1"
                        [] n % 10 = 2 -> "2" [] n % 10 = 3 -> "3"
                        [] n % 10 = 4 -> "4" [] n % 10 = 5 -> "5"
                        [] n % 10 = 6 -> "6" [] n % 10 = 7 -> "7"
                        [] n % 10 = 8 -> "8" [] OTHER -> "9")
    IN  IF n < 10 THEN <<d>> ELSE IntToStr(n \div 10) \o <<d>>

(* --------------------------- heading_to_name -------------------------- *)

\* length of the longest prefix of s made of characters of chars
RECURSIVE RunLen(_, _)
RunLen(s, chars) ==
    IF s # <<>> /\ Head(s) \in chars THEN 1 + RunLen(Tail(s), chars) ELSE 0

\* re.match(r'^\w*?(\d+\w*)\W', s): the leading run of word characters must
\* be followed by a non-word character and hold a digit; the lazy \w*? stops
\* at the run's first digit, and group(1) is the run from there on.
IdMatches(s) ==
    LET w == RunLen(s, WordChars)
    IN  w < Len(s) /\ \E p \in 1..w : s[p] \in Digits

IdGroup(s) ==
    LET w == RunLen(s, WordChars)
        p == CHOOSE q \in 1..w :
                 s[q] \in Digits /\ \A r \in 1..(q - 1) : s[r] \notin Digits
    IN  SubSeq(s, p, w)

\* re.sub(r'[-\s]+', '-', s)
RECURSIVE CollapseDashes(_)
CollapseDashes(s) ==
    LET sep == SpaceChars \cup {"-"}
    IN  IF s = <<>> THEN <<>>
        ELSE IF Head(s) \in sep
             THEN <<"-">> \o CollapseDashes(Drop(s, RunLen(s, sep)))
        ELSE <<Head(s)>> \o CollapseDashes(Tail(s))

Unnamed == <<"u", "n", "n", "a", "m", "e", "d">>

\* rule 2: re.sub(r'[^\w\s-]', '', t), the collapse, strip('-'), lower()
Slugify(heading_text) ==
    LET kept == Filter(heading_text, WordChars \cup SpaceChars \cup {"-"})
        slug == StrLower(Strip(CollapseDashes(kept), {"-"}))
    IN  IF slug = <<>> THEN Unnamed ELSE slug

BaseName(heading_text) ==
    IF IdMatches(heading_text) THEN StrLower(IdGroup(heading_text))
    ELSE Slugify(heading_text)

\* f"{base_name}-{counter}"
Suffixed(base_name, counter) == base_name \o <<"-">> \o IntToStr(counter)

\* while f"{base_name}-{counter}" in used_names: counter += 1
RECURSIVE FindCounter(_, _, _)
FindCounter(base_name, counter, used) ==
    IF Suffixed(base_name, counter) \in used
    THEN FindCounter(base_name, counter + 1, used)
    ELSE counter

\* a bug: the suffix search is skipped and -1 is always taken
heading_to_name_noloop(heading_text, used) ==
    LET base_name == BaseName(heading_text)
    IN  IF base_name \notin used THEN base_name ELSE Suffixed(base_name, 1)

\* the value heading_to_name returns
heading_to_name(heading_text, used) ==
    LET base_name == BaseName(heading_text)
    IN  IF base_name \notin used THEN base_name
        ELSE Suffixed(base_name, FindCounter(base_name, 1, used))

\* used_names after the call: both return paths add the returned name
UsedAfter(heading_text, used) == used \cup {heading_to_name(heading_text, used)}

(* ---------------------------- parse_markdown -------------------------- *)

\* heading_text[:20]: the length of the prefix the reconciliation compares
PrefixLen == 20

\* re.match(r'^(#{1,2})\s*(.+)$', line): 0 when there is no match, else
\* len(group(1)).  The greedy #{1,2} takes two '#' when something is left
\* for (.+) after them, and falls back to one otherwise ('##' is level 1).
RawLevel(line) ==
    LET h == RunLen(line, {"#"})
    IN  IF h = 0 THEN 0
        ELSE IF h >= 2 /\ Len(line) > 2 THEN 2
        ELSE IF Len(line) > 1 THEN 1
        ELSE 0

\* first pass: the 0-based numbers of the lines the pattern matches
HeadingPositions(lines) == {i \in 0..(Len(lines) - 1) : RawLevel(lines[i + 1]) > 0}

\* line_content[level:].strip()
LineText(line, level) == Strip(Drop(line, level), SpaceChars)

\* mistune's block parser, as far as the documents here exercise it: a line
\* opening with three tildes (or three backticks, which the documents here
\* do not use) opens or closes a fenced code block
IsFence(line) == StartsWith(line, <<"~", "~", "~">>)

\* 0-based line i is a fence or lies inside a fenced code block
InCode(lines, i) ==
    \/ IsFence(lines[i + 1])
    \/ Cardinality({j \in 0..(i - 1) : IsFence(lines[j + 1])}) % 2 = 1

\* mistune's ATX heading rule: one to six '#' at the start of the line,
\* followed by a blank or by the end of the line; 0 when the line is no heading
AtxLevel(line) ==
    LET h == RunLen(line, {"#"})
    IN  IF h >= 1 /\ h <= 6 /\ (Len(line) = h \/ line[h + 1] \in SpaceChars)
        THEN h ELSE 0

\* mistune's heading text: the rest of the line stripped, without a closing
\* run of '#' that follows a blank
AtxText(line) ==
    LET t == Strip(Drop(line, RunLen(line, {"#"})), SpaceChars)
        r == RStrip(t, {"#"})
    IN  IF r = <<>> THEN <<>>
        ELSE IF r # t /\ r[Len(r)] \in SpaceChars THEN RStrip(r, SpaceChars)
        ELSE t

\* extract_heading_text over mistune's inline nodes: a text node gives its
\* raw text, an emphasis node the text of its children, so the '*' pair of
\* an emphasis (opener before a non-blank, closer after a non-blank) is gone
RECURSIVE extract_heading_text(_)
extract_heading_text(t) ==
    LET opens == {p \in 1..(Len(t) - 2) :
                     t[p] = "*" /\ t[p + 1] \notin SpaceChars \cup {"*"}}
        p == CHOOSE q \in opens : \A r \in opens : q <= r
        closes == {c \in (p + 2)..Len(t) :
                      t[c] = "*" /\ t[c - 1] \notin SpaceChars}
        c == CHOOSE q \in closes : \A r \in closes : q <= r
    IN  IF opens = {} \/ closes = {} THEN t
        ELSE SubSeq(t, 1, p - 1) \o SubSeq(t, p + 1, c - 1)
                 \o extract_heading_text(Drop(t, c))

\* the numbers of a finite set of numbers, in increasing order
RECURSIVE Ascending(_)
Ascending(S) ==
    IF S = {} THEN <<>>
    ELSE LET m == CHOOSE x \in S : \A y \in S : x <= y
         IN  <<m>> \o Ascending(S \ {m})

\* the 0-based numbers of the lines mistune makes a heading of level <= 2
AstHeadingLines(lines) ==
    {i \in 0..(Len(lines) - 1) :
        /\ RunLen(lines[i + 1], {"#"}) > 0
        /\ AtxLevel(lines[i + 1]) \in 1..2
        /\ ~InCode(lines, i)}

\* the heading nodes of the AST with level <= 2, in document order, each
\* with the text extract_heading_text gives for it
AstHeadings(lines) ==
    LET at == Ascending(AstHeadingLines(lines))
    IN  [n \in 1..Len(at) |->
            [level |-> AtxLevel(lines[at[n] + 1]),
             text |-> extract_heading_text(AtxText(lines[at[n] + 1]))]]

\* heading_text in line_text or line_text.startswith(heading_text[:20] ...)
TextMatches(heading_text, line_text) ==
    \/ Contains(line_text, heading_text)
    \/ StartsWith(line_text,
                  IF Len(heading_text) >= PrefixLen
                  THEN Take(heading_text, PrefixLen) ELSE heading_text)

\* the unclaimed lines of the heading's level whose text matches
Candidates(lines, positions, level, heading_text) ==
    {n \in positions :
        /\ RawLevel(lines[n + 1]) = level
        /\ TextMatches(heading_text, LineText(lines[n + 1], level))}

\* best_match: the smallest matching line number
BestMatch(cands) == CHOOSE n \in cands : \A m \in cands : n <= m

\* second pass: each AST heading takes its best match, which is then deleted
\* from heading_positions; a heading without a match is dropped
RECURSIVE MatchHeadings(_, _, _)
MatchHeadings(lines, ast, positions) ==
    IF ast = <<>> THEN <<>>
    ELSE LET node == Head(ast)
             cands == Candidates(lines, positions, node.level, node.text)
         IN  IF cands = {} THEN MatchHeadings(lines, Tail(ast), positions)
             ELSE <<[level |-> node.level, heading_text |-> node.text,
                     start_line |-> BestMatch(cands)]>>
                      \o MatchHeadings(lines, Tail(ast),
                                       positions \ {BestMatch(cands)})

\* end_line of headings[idx]: the start of the first later heading whose
\* level is <= its own, or len(lines)
SectionEnd(headings, idx, nlines) ==
    LET later == {k \in (idx + 1)..Len(headings) :
                     headings[k].level <= headings[idx].level}
    IN  IF later = {} THEN nlines
        ELSE headings[CHOOSE k \in later : \A m \in later : k <= m].start_line

\* a bug: the headings are the lines the pattern matches, without the AST
parse_markdown_pattern_only(lines) ==
    LET at == Ascending(HeadingPositions(lines))
        headings == [n \in 1..Len(at) |->
                        [level |-> RawLevel(lines[at[n] + 1]),
                         heading_text |-> LineText(lines[at[n] + 1],
                                                   RawLevel(lines[at[n] + 1])),
                         start_line |-> at[n]]]
    IN  [idx \in 1..Len(headings) |->
            [level |-> headings[idx].level,
             heading_text |-> headings[idx].heading_text,
             start_line |-> headings[idx].start_line,
             end_line |-> SectionEnd(headings, idx, Len(lines))]]

\* parse_markdown(content), content given by its lines
parse_markdown(lines) ==
    LET headings == MatchHeadings(lines, AstHeadings(lines), HeadingPositions(lines))
    IN  [idx \in 1..Len(headings) |->
            [level |-> headings[idx].level,
             heading_text |-> headings[idx].heading_text,
             start_line |-> headings[idx].start_line,
             end_line |-> SectionEnd(headings, idx, Len(lines))]]

(* ------------------------- values and files --------------------------- *)

\* Python's None and a value that is not None
None == [none |-> TRUE, val |-> <<>>]

Some(v) == [none |-> FALSE, val |-> v]

\* bool(x) of a str or None: None and '' are false
Truthy(x) == ~x.none /\ x.val # <<>>

\* lines[start:end] of Python, for 0 <= start, end <= len(lines)
Slice(ls, start, end) == IF start >= end THEN <<>> ELSE SubSeq(ls, start + 1, end)

\* '\n'.join(ls), as the '\n'-separated pieces of the result: the join of no
\* line and the join of one empty line are both ''
Join(ls) == IF ls = <<>> THEN << <<>> >> ELSE ls

\* a directory that does not exist, and an empty one
NoDir == [exists |-> FALSE, files |-> <<>>]

EmptyDir == [exists |-> TRUE, files |-> <<>>]

\* a bug: the directory is kept as it is
RmTreeKeep(dir) == dir

\* if dir.exists(): shutil.rmtree(dir)
RmTree(dir) == IF dir.exists THEN NoDir ELSE dir

\* dir.mkdir(parents=True, exist_ok=True)
MkDir(dir) == IF dir.exists THEN dir ELSE EmptyDir

\* open(dir / f'{file_name}.md', 'w').write(content)
WriteFile(dir, file_name, content) ==
    [exists |-> TRUE,
     files |-> [f \in DOMAIN dir.files \cup {file_name} |->
                   IF f = file_name THEN content ELSE dir.files[f]]]

(* ------------------------ create_file_structure ------------------------ *)

TOO_LONG_THRESHOLD == 500

\* a bug: a section of exactly TOO_LONG_THRESHOLD lines counts as long
IsTooLongOffByOne(content_line_count) == content_line_count >= TOO_LONG_THRESHOLD

\* is_too_long
IsTooLong(content_line_count) == content_line_count > TOO_LONG_THRESHOLD

\* f'/{name}/{file_name}'
Link(n, file_name) == <<"/">> \o n \o <<"/">> \o file_name

ContentName == <<"C", "o", "n", "t", "e", "n", "t">>

L2Marker == <<"#", "#", " ">>

\* the index of the first line that starts with '## ', 0 when there is none
FirstL2Line(content_lines) ==
    LET hits == {n \in 1..Len(content_lines) : StartsWith(content_lines[n], L2Marker)}
    IN  IF hits = {} THEN 0 ELSE CHOOSE n \in hits : \A m \in hits : n <= m

\* a bug: every line that starts with '## ' loses its first '#'
RewriteEveryMarker(content_lines) ==
    [n \in 1..Len(content_lines) |->
        IF StartsWith(content_lines[n], L2Marker)
        THEN Drop(content_lines[n], 1) ELSE content_lines[n]]

\* the loop over content.split('\n'): the first line that starts with '## '
\* loses its first '#', then the loop breaks
RewriteMarker(content_lines) ==
    [n \in 1..Len(content_lines) |->
        IF n = FirstL2Line(content_lines)
        THEN Drop(content_lines[n], 1) ELSE content_lines[n]]

\* lines, read again from original/{name}.md
CfsLines == original[name].val

\* the NavEntry appended for the level-1 section that ends
NavEntry == [text |-> current_l1_name.val, link |-> current_l1_link,
             items |-> current_l1_items]

\* "if current_l1_name: sidebar_structure.append(...)"
AppendCurrent ==
    IF Truthy(current_l1_name) THEN Append(sidebar_structure, NavEntry)
    ELSE sidebar_structure

\* the call's first lines: the source is read, docs/{name}/ is removed and
\* made again, the locals are set
CfsStart ==
    /\ pc = "cfs"
    /\ ~original[name].none     \* else FileNotFoundError; split has checked it
    /\ docs' = [docs EXCEPT ![name] = MkDir(RmTree(@))]
    /\ used_names' = {}
    /\ current_l1_name' = None
    /\ sidebar_structure' = <<>>
    /\ current_l1_items' = <<>>
    /\ current_l1_link' = None
    /\ si' = 1
    /\ writes' = <<>>
    /\ pc' = "cfs_loop"
    /\ UNCHANGED <<original, config, names, ni, name, sections, all_structures,
                   sink_calls, written, docs0, run, first, alloc>>

\* one pass of the loop over sections, for a level-1 section
CfsLevel1 ==
    /\ pc = "cfs_loop"
    /\ si <= Len(sections)
    /\ sections[si].level = 1
    /\ LET sec == sections[si]
           content == Join(Slice(CfsLines, sec.start_line, sec.end_line))
           content_line_count == sec.end_line - sec.start_line
           file_name == heading_to_name(sec.heading_text, used_names)
       IN  /\ sidebar_structure' = AppendCurrent
           /\ current_l1_name' = Some(sec.heading_text)
           /\ current_l1_items' = <<>>
           /\ IF IsTooLong(content_line_count)
              THEN /\ current_l1_link' = None
                   /\ UNCHANGED <<docs, used_names, writes, written>>
              ELSE /\ current_l1_link' = Some(Link(name, file_name))
                   /\ used_names' = UsedAfter(sec.heading_text, used_names)
                   /\ docs' = [docs EXCEPT ![name] = WriteFile(@, file_name, content)]
                   /\ writes' = Append(writes, [sec |-> si, file_name |-> file_name,
                                                rewritten |-> 0])
                   /\ written' = [written EXCEPT ![name] = @ \cup {file_name}]
    /\ si' = si + 1
    /\ UNCHANGED <<original, config, loop, sink_calls, docs0, run, first, alloc>>

\* one pass of the loop over sections, for a level-2 section
CfsLevel2 ==
    /\ pc = "cfs_loop"
    /\ si <= Len(sections)
    /\ sections[si].level = 2
    /\ LET sec == sections[si]
           content == Join(Slice(CfsLines, sec.start_line, sec.end_line))
           file_name == heading_to_name(sec.heading_text, used_names)
           fresh == current_l1_name.none
           l1_items == IF fresh THEN <<>> ELSE current_l1_items
           l1_link == IF fresh THEN None ELSE current_l1_link
       IN  /\ current_l1_name' = IF fresh THEN Some(ContentName) ELSE current_l1_name
           /\ current_l1_link' = l1_link
           /\ IF l1_link.none
              THEN /\ used_names' = UsedAfter(sec.heading_text, used_names)
                   /\ docs' = [docs EXCEPT
                                  ![name] = WriteFile(@, file_name, RewriteMarker(content))]
                   /\ writes' = Append(writes, [sec |-> si, file_name |-> file_name,
                                                rewritten |-> FirstL2Line(content)])
                   /\ written' = [written EXCEPT ![name] = @ \cup {file_name}]
                   /\ current_l1_items' =
                          Append(l1_items, [text |-> sec.heading_text,
                                            link |-> Link(name, file_name)])
              ELSE /\ current_l1_items' = l1_items
                   /\ UNCHANGED <<docs, used_names, writes, written>>
    /\ si' = si + 1
    /\ UNCHANGED <<original, config, loop, sidebar_structure, sink_calls, docs0,
                   run, first, alloc>>

\* all_structures[name] = structure: a key the dict holds keeps its place
DictSet(d, key, value) ==
    IF \E n \in 1..Len(d) : d[n].name = key
    THEN [n \in 1..Len(d) |-> IF d[n].name = key
                              THEN [name |-> key, structure |-> value] ELSE d[n]]
    ELSE Append(d, [name |-> key, structure |-> value])

\* after the loop: the last level-1 section is added and the structure is
\* returned to split, which stores it
CfsReturn ==
    /\ pc = "cfs_loop"
    /\ si > Len(sections)
    /\ sidebar_structure' = AppendCurrent
    /\ all_structures' = DictSet(all_structures, name, AppendCurrent)
    /\ pc' = "index"
    /\ UNCHANGED <<fs, names, ni, name, sections, si, used_names, current_l1_name,
                   current_l1_items, current_l1_link, hist, alloc>>

(* -------------------------------- split -------------------------------- *)

\* re.match(r'^[a-zA-Z0-9_-]+$', name)
ValidName(n) ==
    /\ n # <<>>
    /\ \A c \in 1..Len(n) :
           n[c] \in LowerLetters \cup UpperLetters \cup Digits \cup {"_", "-"}

\* the title of the guide page; a literal no code path looks into is one symbol
Title(n) ==
    IF n = <<"o", "j">> THEN <<"OpenJudge", "TiKu">>
    ELSE IF n = <<"c", "f">> THEN <<"Codeforces", "TiKu">>
    ELSE StrUpper(n) \o <<"TiKu">>

\* guide_content, by its lines
GuideContent(n) ==
    << <<"#", " ">> \o Title(n), <<>>,
       <<"HuanYingLaiDao">> \o Title(n) \o <<"DianJiZuoBianMuLu">>, <<>> >>

IndexName == <<"i", "n", "d", "e", "x">>

\* text.replace("'", "\\'")
RECURSIVE EscapeQuotes(_)
EscapeQuotes(t) ==
    IF t = <<>> THEN <<>>
    ELSE IF Head(t) = "'" THEN <<"\\", "'">> \o EscapeQuotes(Tail(t))
    ELSE <<Head(t)>> \o EscapeQuotes(Tail(t))

\* one section object of the fragment: the link is printed when it is
\* truthy, collapsed and items when items is not empty
RenderSection(section) ==
    [text |-> EscapeQuotes(section.text),
     link |-> IF Truthy(section.link) THEN section.link ELSE None,
     collapsed |-> section.items # <<>>,
     items |-> [n \in 1..Len(section.items) |->
                   [text |-> EscapeQuotes(section.items[n].text),
                    link |-> section.items[n].link]]]

\* the fragment: one "'/{name}': { items: [...] }" group per document, in
\* the dict's order
generate_sidebar_config(structures) ==
    [d \in 1..Len(structures) |->
        [key |-> <<"/">> \o structures[d].name,
         items |-> [n \in 1..Len(structures[d].structure) |->
                       RenderSection(structures[d].structure[n])]]]

\* the name fails the charset check: continue
SkipInvalid ==
    /\ pc = "loop"
    /\ ni <= Len(names)
    /\ ~ValidName(names[ni])
    /\ ni' = ni + 1
    /\ UNCHANGED <<fs, names, pc, name, sections, all_structures, cfs, hist, alloc>>

\* a bug: a missing source ends the loop (break instead of continue)
SkipMissingBreak ==
    /\ pc = "loop"
    /\ ni <= Len(names)
    /\ ValidName(names[ni])
    /\ original[names[ni]].none
    /\ ni' = Len(names) + 1
    /\ UNCHANGED <<fs, names, pc, name, sections, all_structures, cfs, hist, alloc>>

\* original/{name}.md does not exist: continue
SkipMissing ==
    /\ pc = "loop"
    /\ ni <= Len(names)
    /\ ValidName(names[ni])
    /\ original[names[ni]].none
    /\ ni' = ni + 1
    /\ UNCHANGED <<fs, names, pc, name, sections, all_structures, cfs, hist, alloc>>

\* the source is read and parsed, docs/{name}/ is removed if it exists
ParseDocument ==
    /\ pc = "loop"
    /\ ni <= Len(names)
    /\ ValidName(names[ni])
    /\ ~original[names[ni]].none
    /\ name' = names[ni]
    /\ sections' = parse_markdown(original[names[ni]].val)
    /\ docs' = [docs EXCEPT ![names[ni]] = RmTree(@)]
    /\ pc' = "cfs"
    /\ UNCHANGED <<original, config, names, ni, all_structures, cfs, hist, alloc>>

\* a bug: the sink is called inside the loop, after each document
WriteIndexAndUpdate ==
    /\ pc = "index"
    /\ docs' = [docs EXCEPT ![name] = WriteFile(@, IndexName, GuideContent(name))]
    /\ written' = [written EXCEPT ![name] = @ \cup {IndexName}]
    /\ config' = Some(generate_sidebar_config(all_structures))
    /\ sink_calls' = sink_calls + 1
    /\ ni' = ni + 1
    /\ pc' = "loop"
    /\ UNCHANGED <<original, names, name, sections, all_structures, cfs,
                   writes, docs0, run, first, alloc>>

\* index.md is written and the loop goes to the next name
WriteIndex ==
    /\ pc = "index"
    /\ docs' = [docs EXCEPT ![name] = WriteFile(@, IndexName, GuideContent(name))]
    /\ written' = [written EXCEPT ![name] = @ \cup {IndexName}]
    /\ ni' = ni + 1
    /\ pc' = "loop"
    /\ UNCHANGED <<original, config, names, name, sections, all_structures, cfs,
                   sink_calls, writes, docs0, run, first, alloc>>

\* after the loop, "if all_structures:" holds: the fragment is generated and
\* update_config_file splices it into the template
UpdateConfig ==
    /\ pc = "loop"
    /\ ni > Len(names)
    /\ all_structures # <<>>
    /\ config' = Some(generate_sidebar_config(all_structures))
    /\ sink_calls' = sink_calls + 1
    /\ pc' = "done"
    /\ UNCHANGED <<original, docs, names, ni, name, sections, all_structures, cfs,
                   writes, written, docs0, run, first, alloc>>

\* after the loop, all_structures is empty: nothing is generated
NoConfig ==
    /\ pc = "loop"
    /\ ni > Len(names)
    /\ all_structures = <<>>
    /\ pc' = "done"
    /\ UNCHANGED <<fs, names, ni, name, sections, all_structures, cfs, hist, alloc>>

\* split is called again with the same names on the input as it is
Rerun ==
    /\ pc = "done"
    /\ run < MaxRuns
    /\ run' = run + 1
    /\ first' = [docs |-> docs, config |-> config]
    /\ written' = [n \in DOMAIN written |-> {}]
    /\ sink_calls' = 0
    /\ writes' = <<>>
    /\ all_structures' = <<>>
    /\ ni' = 1
    /\ pc' = "loop"
    /\ UNCHANGED <<original, docs, config, names, name, sections, cfs, docs0, alloc>>

(* ------------------------------ the inputs ----------------------------- *)

H1A == <<"#", " ", "A">>

H1B == <<"#", " ", "B">>

H2B == <<"#", "#", " ", "B">>

\* no heading for mistune (no blank after '#'), a heading for the pattern
HashB == <<"#", "B">>

Body == <<"b">>

Fence == <<"~", "~", "~">>

SeqsUpTo(pool, n) == UNION {[1..m -> pool] : m \in 1..n}

SmallDocs == SeqsUpTo({H1A, H1B, H2B, HashB, Body}, MaxLines)

\* sk with n body lines put in after its line pos (at its end when it is shorter)
Pad(sk, pos, n) == Take(sk, pos) \o [m \in 1..n |-> Body] \o Drop(sk, pos)

PadSizes == {TOO_LONG_THRESHOLD - 2, TOO_LONG_THRESHOLD - 1, TOO_LONG_THRESHOLD}

PaddedDocs ==
    {Pad(sk, pos, n) : sk \in SeqsUpTo({H1A, H1B, H2B}, MaxSkel),
                       pos \in 1..MaxSkel, n \in PadSizes}

\* a level-1 section of exactly TOO_LONG_THRESHOLD lines, then one of one more
ThresholdDoc ==
    Pad(<<H1A, H2B>>, 2, TOO_LONG_THRESHOLD - 2)
        \o Pad(<<H1B, H2B, H2B>>, 2, TOO_LONG_THRESHOLD - 2)

ExtraDocs ==
    { << <<>> >>,
      << <<"#", " ">>, Body >>,
      << <<"#", " ">>, H2B, Body, H1A >>,
      << <<"#", " ", "I", "n", "d", "e", "x">>, Body >>,
      << H2B, <<"#", "#", " ", "i", "n", "d", "e", "x">>, Body >>,
      << H2B, Fence, H2B, Fence, H2B >>,
      << H1A, Fence, H1B, Fence, H1A, H1B >>,
      << <<"#", "#", "\t", "B">>, Fence, H2B, Fence >>,
      << <<"#", "#", " ", "a", "*", "B", "*">>, Body >>,
      << <<"#", "#", "#", " ", "B">>, Body, H2B, Body >>,
      << <<"#", "#", " ", "1", "A", ".", " ", "T">>, <<"#", "#", " ", "1", "a", ":">>,
         <<"#", "#", " ", "A", "'", "s">> >>,
      ThresholdDoc }

Cf == <<"c", "f">>

Xn == <<"x">>

BadName == <<".", ".", "/", "x">>

NamePool == {Cf, Xn, BadName}

TinyDocA == <<H1A, Body, H2B>>

TinyDocB == <<H2B, Body, H1A, H1B>>

\* what an earlier run on another input left under docs/{name}/
StaleDir ==
    [exists |-> TRUE,
     files |-> [f \in {<<"o", "l", "d">>, IndexName} |-> <<Body>>]]

\* split(names) is called; what does not depend on the input
InitRun ==
    /\ config \in {None, Some(<<>>)}
    /\ ni = 1
    /\ pc = "loop"
    /\ name = <<>>
    /\ sections = <<>>
    /\ all_structures = <<>>
    /\ si = 1
    /\ used_names = {}
    /\ current_l1_name = None
    /\ sidebar_structure = <<>>
    /\ current_l1_items = <<>>
    /\ current_l1_link = None
    /\ sink_calls = 0
    /\ writes = <<>>
    /\ written = [n \in NamePool |-> {}]
    /\ docs0 = docs
    /\ run = 1
    /\ first = [docs |-> docs, config |-> config]
    /\ issued = <<>>
    /\ asked = <<>>

\* one document, of any shape
InitOneDoc ==
    /\ names = <<Cf>>
    /\ \E d \in SmallDocs \cup PaddedDocs \cup ExtraDocs :
           original = [n \in NamePool |-> IF n = Cf THEN Some(d) ELSE None]
    /\ docs = [n \in NamePool |-> NoDir]
    /\ InitRun
    /\ config = None

\* any list of names, over sources that exist or not and output directories
\* that an earlier run left or not
InitLists ==
    /\ names \in UNION {[1..m -> NamePool] : m \in 0..MaxNames}
    /\ \E dc \in {None, Some(TinyDocA), Some(TinyDocB)}, dx \in {None, Some(TinyDocA)} :
           original = [n \in NamePool |->
                          IF n = Cf THEN dc ELSE IF n = Xn THEN dx ELSE None]
    /\ \E sc \in {NoDir, StaleDir}, sx \in {NoDir, StaleDir} :
           docs = [n \in NamePool |->
                      IF n = Cf THEN sc ELSE IF n = Xn THEN sx ELSE NoDir]
    /\ InitRun

Init == InitOneDoc \/ InitLists

Next ==
    \/ SkipInvalid
    \/ SkipMissing
    \/ ParseDocument
    \/ CfsStart
    \/ CfsLevel1
    \/ CfsLevel2
    \/ CfsReturn
    \/ WriteIndex
    \/ UpdateConfig
    \/ NoConfig

Spec == Init /\ [][Next]_vars

NextRerun == Next \/ Rerun

SpecRerun == InitLists /\ [][NextRerun]_vars

(* ------------------ the allocator on one used_names set --------------- *)

AllocTexts ==
    { <<"x">>, <<"x", "-", "1">>, <<"x", "-", "2">>, <<"X", " ", "1">>,
      <<"1", "A", ".", " ", "T">>, <<"1", "a">>, <<"1", "a", "-", "1">>,
      <<"?", "?", "?">>, <<"u", "n", "n", "a", "m", "e", "d">>, <<>> }

InitAlloc ==
    /\ names = <<>>
    /\ original = [n \in NamePool |-> None]
    /\ docs = [n \in NamePool |-> NoDir]
    /\ InitRun
    /\ config = None

Alloc ==
    \E t \in AllocTexts :
        /\ Len(issued) < MaxAlloc
        /\ issued' = Append(issued, heading_to_name(t, used_names))
        /\ asked' = Append(asked, t)
        /\ used_names' = UsedAfter(t, used_names)
        /\ UNCHANGED <<fs, loop, si, current_l1_name, sidebar_structure,
                       current_l1_items, current_l1_link, hist>>

NextAlloc == Alloc

SpecAlloc == InitAlloc /\ [][NextAlloc]_vars

\* C2: the names returned by the calls sharing one used_names set are
\* pairwise different, whatever the heading texts were.
C2_NamesDistinct ==
    \A i, j \in 1..Len(issued) : i # j => issued[i] # issued[j]

\* 'x-1' was issued as a base name, then 'x' twice: the second 'x' had to
\* step over the already issued 'x-1'.
C2_Witness ==
    /\ Len(asked) = 3
    /\ asked[1] = <<"x", "-", "1">>
    /\ asked[2] = <<"x">>
    /\ asked[3] = <<"x">>
    /\ issued[3] = <<"x", "-", "2">>

(* --------------------- create_file_structure's result ------------------ *)

\* create_file_structure has returned for the current document and index.md
\* is not written yet
CfsDone == pc = "index"

SpanLen(sec) == sec.end_line - sec.start_line

InSpan(sec, n) == sec.start_line <= n /\ n < sec.end_line

\* the level-1 section a section of the list belongs to: the last level-1
\* section before it in the list, 0 when there is none
ParentOf(j) ==
    LET before == {m \in 1..(j - 1) : sections[m].level = 1}
    IN  IF before = {} THEN 0 ELSE CHOOSE m \in before : \A q \in before : q <= m

Level1Sections == {j \in 1..Len(sections) : sections[j].level = 1}

ChildrenOf(j) == {m \in 1..Len(sections) : sections[m].level = 2 /\ ParentOf(m) = j}

WritesOf(j) == {w \in 1..Len(writes) : writes[w].sec = j}

\* the sections the splitter is to put into a file of their own: the short
\* level-1 sections and the level-2 sections under a long level-1 section
\* or before any level-1 section
HasOwnFile(j) ==
    IF sections[j].level = 1 THEN SpanLen(sections[j]) <= TOO_LONG_THRESHOLD
    ELSE ParentOf(j) = 0 \/ SpanLen(sections[ParentOf(j)]) > TOO_LONG_THRESHOLD

\* C1: every document line inside the span of a section that gets a file of
\* its own is written by create_file_structure to exactly one file.
C1_EveryLineInOneFile ==
    CfsDone =>
        \A n \in 0..(Len(CfsLines) - 1) :
            (\E j \in 1..Len(sections) : HasOwnFile(j) /\ InSpan(sections[j], n))
                => Cardinality({w \in 1..Len(writes) :
                                   InSpan(sections[writes[w].sec], n)}) = 1

\* C3: a level-1 section of at most TOO_LONG_THRESHOLD lines (500 is short)
\* gets one file and none of its level-2 children does; a longer one (501 is
\* long) gets no file and each of its level-2 children gets one file, all
\* under different names; the files on disk are those.
C3_ThresholdDecides ==
    CfsDone =>
        /\ \A j \in Level1Sections :
               IF SpanLen(sections[j]) <= TOO_LONG_THRESHOLD
               THEN /\ Cardinality(WritesOf(j)) = 1
                    /\ \A c \in ChildrenOf(j) : WritesOf(c) = {}
               ELSE /\ WritesOf(j) = {}
                    /\ \A c \in ChildrenOf(j) : Cardinality(WritesOf(c)) = 1
        /\ \A v, w \in 1..Len(writes) :
               v # w => writes[v].file_name # writes[w].file_name
        /\ DOMAIN docs[name].files = {writes[w].file_name : w \in 1..Len(writes)}

\* one level-1 section of exactly 500 lines and one of 501, each with a
\* level-2 child
C3_Witness ==
    /\ CfsDone
    /\ \E j \in Level1Sections :
           SpanLen(sections[j]) = TOO_LONG_THRESHOLD /\ ChildrenOf(j) # {}
    /\ \E j \in Level1Sections :
           SpanLen(sections[j]) = TOO_LONG_THRESHOLD + 1 /\ ChildrenOf(j) # {}

\* the file content with the line the splitter rewrote turned back into a
\* level-2 heading line
Restore(content, rewritten) ==
    [n \in 1..Len(content) |->
        IF n = rewritten THEN <<"#">> \o content[n] ELSE content[n]]

RestoredFile(w) == Restore(docs[name].files[writes[w].file_name], writes[w].rewritten)

\* the restored contents of the files of the sections js, one after the
\* other in the order of the list
RECURSIVE ConcatFiles(_)
ConcatFiles(js) ==
    IF js = <<>> THEN <<>>
    ELSE RestoredFile(CHOOSE w \in WritesOf(Head(js)) : TRUE) \o ConcatFiles(Tail(js))

ItemsOf(j) ==
    LET cs == Ascending(ChildrenOf(j))
    IN  [c \in 1..Len(cs) |->
            [text |-> sections[cs[c]].heading_text,
             link |-> Link(name, writes[CHOOSE w \in WritesOf(cs[c]) : TRUE].file_name)]]

\* C5: one NavEntry per level-1 section, in the order of the list (after the
\* entry of the implicit group when the list starts with a level-2 section):
\* a short section's entry links its file and has no items, a long section's
\* entry has no link and one item per level-2 section under it.
C5_OneNavEntryPerLevel1 ==
    CfsDone =>
        LET l1 == Ascending(Level1Sections)
            lead == IF sections # <<>> /\ sections[1].level = 2 THEN 1 ELSE 0
        IN  /\ Len(sidebar_structure) = Len(l1) + lead
            /\ \A e \in 1..Len(l1) :
                   LET entry == sidebar_structure[e + lead]
                       sec == sections[l1[e]]
                   IN  /\ entry.text = sec.heading_text
                       /\ IF SpanLen(sec) <= TOO_LONG_THRESHOLD
                          THEN /\ WritesOf(l1[e]) # {}
                               /\ entry.link =
                                      Some(Link(name,
                                                writes[CHOOSE w \in WritesOf(l1[e]) : TRUE].file_name))
                               /\ entry.items = <<>>
                          ELSE /\ entry.link = None
                               /\ entry.items = ItemsOf(l1[e])

\* C9: the landing file's path is no NavEntry's link and no item's link, and
\* no content file is written to it.
C9_IndexNotInNav ==
    CfsDone =>
        /\ \A w \in 1..Len(writes) : writes[w].file_name # IndexName
        /\ \A e \in 1..Len(sidebar_structure) :
               /\ sidebar_structure[e].link # Some(Link(name, IndexName))
               /\ \A m \in 1..Len(sidebar_structure[e].items) :
                      sidebar_structure[e].items[m].link # Link(name, IndexName)

\* no line of the document is a level-1 or level-2 heading
NoHeadings(lines) ==
    \A n \in 0..(Len(lines) - 1) :
        InCode(lines, n) \/ AtxLevel(lines[n + 1]) \notin 1..2

\* C10 as stated: a document without headings gives no section, and the
\* splitter makes one "Content" NavEntry of that.
C10_NoHeadingsGivesContent ==
    (CfsDone /\ NoHeadings(CfsLines)) =>
        /\ sections = <<>>
        /\ Len(sidebar_structure) = 1
        /\ sidebar_structure[1].text = ContentName

\* C10, amended: a document without headings gives no section, and the
\* splitter makes nothing of that: no NavEntry and no content file.  The
\* "Content" NavEntry is made when the list starts with a level-2 section.
C10_NoHeadingsGivesNothing ==
    CfsDone =>
        /\ NoHeadings(CfsLines) =>
               /\ sections = <<>>
               /\ sidebar_structure = <<>>
               /\ writes = <<>>
               /\ DOMAIN docs[name].files = {}
        /\ (sections # <<>> /\ sections[1].level = 2) =>
               /\ sidebar_structure[1].text = ContentName
               /\ sidebar_structure[1].link = None

\* a document without headings that has lines the pattern takes for headings
C10_Witness ==
    /\ CfsDone
    /\ NoHeadings(CfsLines)
    /\ HeadingPositions(CfsLines) # {}

\* C11: the sections parse_markdown returns are in document order (start
\* lines strictly increasing), each has start_line < end_line, and the spans
\* of two sections of the same level do not overlap.
C11_SectionsOrdered ==
    pc # "loop" =>
        /\ \A j \in 1..(Len(sections) - 1) :
               sections[j].start_line < sections[j + 1].start_line
        /\ \A j \in 1..Len(sections) :
               sections[j].start_line < sections[j].end_line
        /\ \A j, m \in 1..Len(sections) :
               (j < m /\ sections[j].level = sections[m].level)
                   => ~\E n \in sections[j].start_line..(sections[j].end_line - 1) :
                          InSpan(sections[m], n)

(* ------------------------------ split's result -------------------------- *)

Skipped(n) == ~ValidName(n) \/ original[n].none

Keys(d) == {d[n].name : n \in 1..Len(d)}

\* what split leaves for the names of its list
NamesSettled ==
    \A j \in 1..Len(names) :
        IF Skipped(names[j])
        THEN /\ docs[names[j]] = docs0[names[j]]
             /\ written[names[j]] = {}
             /\ names[j] \notin Keys(all_structures)
        ELSE /\ names[j] \in Keys(all_structures)
             /\ docs[names[j]].exists
             /\ IndexName \in DOMAIN docs[names[j]].files
             /\ docs[names[j]].files[IndexName] = GuideContent(names[j])
             /\ DOMAIN docs[names[j]].files = written[names[j]]

\* C7: at a name that is invalid or has no source split takes the step to
\* the next name; and when split is done, such a name has nothing written
\* for it and every other name of the list, before or after it, has its
\* structure and its directory with index.md.
C7_BadNamesSkippedOthersDone ==
    /\ (pc = "loop" /\ ni <= Len(names) /\ Skipped(names[ni]))
           => ENABLED (SkipInvalid \/ SkipMissing)
    /\ pc = "done" => NamesSettled

\* a skipped name followed by a processed one
C7_Witness ==
    /\ pc = "done"
    /\ Len(names) = 2
    /\ Skipped(names[1])
    /\ ~Skipped(names[2])
    /\ written[names[2]] # {}

\* C8 as stated: in every run the sink is called exactly once.
C8_SinkCalledOnce == pc = "done" => sink_calls = 1

\* C8, amended: the sink is called at most once, only after the loop over
\* the names has ended, with the fragment of all processed documents; it is
\* called once when at least one name was processed and not at all otherwise.
C8_SinkOnceIfAnyProcessed ==
    /\ sink_calls <= 1
    /\ sink_calls = 1 =>
           /\ pc = "done"
           /\ ni > Len(names)
           /\ config = Some(generate_sidebar_config(all_structures))
           /\ Keys(all_structures) = {names[j] : j \in {m \in 1..Len(names) : ~Skipped(names[m])}}
    /\ pc = "done" =>
           (sink_calls = 1 <=> \E j \in 1..Len(names) : ~Skipped(names[j]))

\* the sink was called once after a skipped and a processed name
C8_Witness ==
    /\ pc = "done"
    /\ sink_calls = 1
    /\ Len(names) = 2
    /\ ~Skipped(names[1])
    /\ Skipped(names[2])

\* C6: create_file_structure starts its loop on an empty directory; when a
\* run is done, the directory of every processed document holds exactly the
\* files this run wrote; and a rerun on the same input leaves the files and
\* the fragment as the run before left them.
C6_RebuildFromInputOnly ==
    /\ (pc = "cfs_loop" /\ si = 1) => docs[name] = EmptyDir
    /\ pc = "done" =>
           \A j \in 1..Len(names) :
               ~Skipped(names[j]) =>
                   /\ docs[names[j]].exists
                   /\ DOMAIN docs[names[j]].files = written[names[j]]
    /\ (pc = "done" /\ run > 1) =>
           /\ docs = first.docs
           /\ config = first.config

\* a rerun is done on a document whose directory held another run's files
\* before the first run
C6_Witness ==
    /\ pc = "done"
    /\ run = 2
    /\ ~Skipped(Cf)
    /\ \E j \in 1..Len(names) : names[j] = Cf
    /\ docs0[Cf] = StaleDir
    /\ <<"o", "l", "d">> \notin DOMAIN docs[Cf].files

=============================================================================
